---- MODULE Spec2Model ----
(***************************************************************************)
(* A model of chunk.cpp: the BufferPool, the Chunker (pushData,            *)
(* flushCurrentBuffer, constructor and destructor) and the loop of main    *)
(* that gives every input file a Chunker of its own.                       *)
(*                                                                         *)
(* A ChunkBuffer is a heap object; `heap` maps the address of every live   *)
(* ChunkBuffer to its fields.  A std::unique_ptr<ChunkBuffer> is an        *)
(* address or NULL.  Code positions are kept in `pc`, so the states inside *)
(* one pushData call (after the memcpy, between the release and the next   *)
(* acquire) are states of the model too.                                   *)
(***************************************************************************)
EXTENDS Integers, Sequences, FiniteSets, TLC

\* --- sizes of the model --------------------------------------------------
\* CHUNK_LIMIT and NUM_BUFFERS are the program's constants scaled down
\* (chunk.cpp:33 and chunk.cpp:36 set 5 MB + 5 KB and 100).
CHUNK_LIMIT  == 2
NUM_BUFFERS  == 2
\* number of input files on the command line is at most MaxInputs
MaxInputs    == 3
\* total bytes one input delivers, and bytes of one pushData call
MaxStreamLen == 5
MaxPushLen   == 3
\* std::time(nullptr) returns a second in 0..MaxTime
MaxTime      == 1

Byte   == {0, 1}
\* the indeterminate content of `new char[cap]` (chunk.cpp:83)
Uninit == 9
NULL   == 0
Addrs  == 1..NUM_BUFFERS

VARIABLES
  pc,              \* position in main / Chunker code
  ret,             \* where flushCurrentBuffer returns to
  argc,            \* main's argc
  i,               \* main's loop variable
  heap,            \* live ChunkBuffer objects: address -> fields
  freeBuffers_,    \* BufferPool::freeBuffers_
  currentBuffer_,  \* Chunker::currentBuffer_
  data,            \* pushData's argument (len = Len(data))
  offset,          \* pushData's local
  entry,           \* history: the Chunker and pool when pushData was entered
  called,          \* history: pushData was called on the current Chunker
  pushed,          \* history: all bytes passed to the current Chunker
  chunks,          \* history: chunks finalized by the current Chunker
  freed,           \* history: ChunkBuffers deleted so far
  held,            \* history: buffers acquired from the pool, not released
  now,             \* the last value std::time(nullptr) returned
  outFiles,        \* history: files the current Chunker wrote, name -> content
  returnedFalse,   \* history: inputs whose stream_* call returned false
  warned,          \* history: inputs with "No content processed" logged
  abortCause       \* exception that ended the run, or "none"

vars == <<pc, ret, argc, i, heap, freeBuffers_, currentBuffer_, data, offset,
          entry, called, pushed, chunks, freed, held, now, outFiles, returnedFalse,
          warned, abortCause>>

\* --- helpers ---------------------------------------------------------------
Min(a, b) == IF a < b THEN a ELSE b

RECURSIVE Flatten(_)
Flatten(ss) == IF ss = <<>> THEN <<>> ELSE Head(ss) \o Flatten(Tail(ss))

SeqsUpTo(S, n) == UNION {[1..k -> S] : k \in 0..n}

Range(f) == {f[x] : x \in DOMAIN f}

\* --- ChunkBuffer -------------------------------------------------------------
\* ChunkBuffer(cap): data(new char[cap]), capacity(cap), used(0)
ChunkBuffer(cap) ==
  [data |-> [k \in 1..cap |-> Uninit], capacity |-> cap, used |-> 0]

\* void clear() { used = 0; }
clear(b) == [b EXCEPT !.used = 0]

\* a memcpy that reads the input from its start, forgetting `+ offset`
memcpy_noOffset(dst, src, off, n) ==
  [dst EXCEPT !.data = [k \in DOMAIN dst.data |->
      IF k > dst.used /\ k <= dst.used + n THEN src[k - dst.used]
      ELSE dst.data[k]]]

\* std::memcpy(dst.data + dst.used, src + off, n)
memcpy(dst, src, off, n) ==
  [dst EXCEPT !.data = [k \in DOMAIN dst.data |->
      IF k > dst.used /\ k <= dst.used + n THEN src[off + (k - dst.used)]
      ELSE dst.data[k]]]

\* --- BufferPool --------------------------------------------------------------
\* BufferPool(bufferCount, bufferSize): bufferCount fresh buffers
BufferPool(bufferCount, bufferSize) ==
  [h |-> [a \in 1..bufferCount |-> ChunkBuffer(bufferSize)],
   free |-> [k \in 1..bufferCount |-> k]]

\* an acquire that takes the back of the vector and forgets pop_back()
acquireBuffer_noPop(h, free) ==
  LET buf == free[Len(free)] IN
  [buf |-> buf, h |-> [h EXCEPT ![buf] = clear(h[buf])], free |-> free]

\* acquireBuffer on a non-empty free list: the back of the vector, cleared
acquireBuffer(h, free) ==
  LET buf == free[Len(free)] IN
  [buf |-> buf,
   h |-> [h EXCEPT ![buf] = clear(h[buf])],
   free |-> SubSeq(free, 1, Len(free) - 1)]

\* releaseBuffer as it would be without the clear() of line 110
releaseBuffer_noClear(h, free, buf) == [h |-> h, free |-> Append(free, buf)]

\* a release that clears the buffer and forgets push_back()
releaseBuffer_drop(h, free, buf) ==
  [h |-> [h EXCEPT ![buf] = clear(h[buf])], free |-> free]

\* releaseBuffer(buf): clear it, push it to the back of the vector
releaseBuffer(h, free, buf) ==
  [h |-> [h EXCEPT ![buf] = clear(h[buf])],
   free |-> Append(free, buf)]

\* --- Chunker -----------------------------------------------------------------
\* size_t spaceLeft = CHUNK_LIMIT - currentBuffer_->used;
spaceLeft(b) == CHUNK_LIMIT - b.used

\* a copy length that ignores the space left in the buffer
toWrite_noMin(space, remaining) == remaining

\* size_t toWrite = std::min(spaceLeft, len - offset);
toWrite(space, remaining) == Min(space, remaining)

\* line 153 with > in place of >=
reachedLimit_strict(b) == b.used > CHUNK_LIMIT

\* line 153 as it would be if the test never fired
reachedLimit_never(b) == FALSE

\* a limit test that is off by one and flushes one byte early
reachedLimit_early(b) == b.used >= CHUNK_LIMIT - 1

\* if (currentBuffer_->used >= CHUNK_LIMIT)
reachedLimit(b) == b.used >= CHUNK_LIMIT

\* a guard that flushes full buffers only, dropping the last partial chunk
nothingToFlush_partial(cb, h) == cb = NULL \/ h[cb].used < CHUNK_LIMIT

\* a guard that forgets the `used == 0` test
nothingToFlush_nullOnly(cb, h) == cb = NULL

\* if (!currentBuffer_ || currentBuffer_->used == 0) return;
nothingToFlush(cb, h) == cb = NULL \/ h[cb].used = 0

\* dataPtr, dataLen: the first `used` bytes of the buffer
chunkBytes(b) == SubSeq(b.data, 1, b.used)

\* line 185 as it would be if it wrote the whole capacity
writtenBytes_capacity(b) == b.data

\* the bytes handed to ofs.write(dataPtr, dataLen)
writtenBytes(b) == SubSeq(b.data, 1, b.used)

\* the digest: EVP's SHA-512 is outside the model; its stand-in is a
\* one-byte hash that is injective on the byte strings of the model
\* (base-3 digits 1 and 2), as the design treats collisions as negligible
RECURSIVE sha512(_)
sha512(bytes) ==
  IF bytes = <<>> THEN 0 ELSE (Head(bytes) + 1) + 3 * sha512(Tail(bytes))

\* oss << std::hex << ((hash[i] & 0xF0) >> 4) << (hash[i] & 0x0F)
hex(hashByte) == <<(hashByte \div 16) % 16, hashByte % 16>>

\* compute_sha512 when it does not throw: the hash in lower-case hex
compute_sha512(bytes) == hex(sha512(bytes))

\* fname << outputDir_ << "/" << hashVal << "_" << now << ".txt"
fname(hashVal, t) == [digest |-> hashVal, ts |-> t]

\* std::ofstream ofs(fname, std::ios::binary); ofs.write(...): a failed
\* open leaves the directory as it was; an open truncates or creates the
\* file.  A failed write leaves an unspecified part of the bytes in it:
\* the file is kept as the bytes handed to write and whether all landed
writeFile(files, name, bytes, persist) ==
  IF persist = "open_fail" THEN files
  ELSE [n \in DOMAIN files \cup {name} |->
          IF n = name THEN [bytes |-> bytes, whole |-> persist = "ok"]
          ELSE files[n]]

\* what flushCurrentBuffer prints for each outcome of the ofstream
logLine(persist) == IF persist = "open_fail" THEN "Error writing chunk file"
                    ELSE "Flushed chunk"

\* outcomes of opening and writing the chunk file
PersistOutcomes == {"ok", "open_fail", "write_fail"}

\* a finalization that returns on the open error, before the release
finalize_returnOnError(h, free, cb, persist, t) ==
  LET r == releaseBuffer(h, free, cb) IN
  [chunk |-> [bytes |-> chunkBytes(h[cb]), persist |-> persist,
              name |-> fname(compute_sha512(chunkBytes(h[cb])), t),
              log |-> logLine(persist)],
   h |-> IF persist = "open_fail" THEN h ELSE r.h,
   free |-> IF persist = "open_fail" THEN free ELSE r.free,
   cb |-> IF persist = "open_fail" THEN cb ELSE NULL]

\* flushCurrentBuffer after a successful hash: the chunk is the first
\* `used` bytes, named by its digest and the time t; the file is written
\* or not; the buffer is moved to the pool whatever the ofstream did,
\* which leaves currentBuffer_ null
finalize(h, free, cb, persist, t) ==
  LET r == releaseBuffer(h, free, cb) IN
  [chunk |-> [bytes |-> chunkBytes(h[cb]), persist |-> persist,
              name |-> fname(compute_sha512(chunkBytes(h[cb])), t),
              log |-> logLine(persist)],
   h |-> r.h,
   free |-> r.free,
   cb |-> NULL]

\* --- main --------------------------------------------------------------------
\* main up to the for loop: the pool is built, no Chunker exists yet
Init ==
  /\ argc \in 2..(MaxInputs + 1)
  /\ i = 1
  /\ pc = "main"
  /\ ret = "none"
  /\ heap = BufferPool(NUM_BUFFERS, CHUNK_LIMIT).h
  /\ freeBuffers_ = BufferPool(NUM_BUFFERS, CHUNK_LIMIT).free
  /\ currentBuffer_ = NULL
  /\ data = <<>>
  /\ offset = 0
  /\ entry = <<>>
  /\ called = FALSE
  /\ pushed = <<>>
  /\ chunks = <<>>
  /\ freed = {}
  /\ held = {}
  /\ now = 0
  /\ outFiles = <<>>
  /\ returnedFalse = {}
  /\ warned = {}
  /\ abortCause = "none"

\* what() of the exceptions of acquireBuffer and of compute_sha512
PoolExhausted == "No free chunk buffers available!"
HashFailure   == "Failed to create EVP_MD_CTX"

\* a handler in main that reports the exception and returns
Abort_handled(cause) ==
  /\ pc' = "done"
  /\ abortCause' = cause

\* a handler in the loop body that gives up the input and goes on
Abort_nextInput(cause) ==
  /\ pc' = "dtor"
  /\ abortCause' = cause

\* main has no handler, so std::terminate ends the process where the
\* exception is thrown (g++ does not unwind the stack without a handler)
Abort(cause) ==
  /\ pc' = "aborted"
  /\ abortCause' = cause

\* loop body up to `Chunker chunker(bufferPool, g_outputDir);`
\* the constructor acquires the current buffer or throws
ChunkerCtor ==
  /\ pc = "main"
  /\ i < argc
  /\ called' = FALSE
  /\ pushed' = <<>>
  /\ chunks' = <<>>
  /\ outFiles' = <<>>
  /\ IF freeBuffers_ = <<>>
       THEN /\ Abort(PoolExhausted)
            /\ UNCHANGED <<heap, freeBuffers_, currentBuffer_, held>>
       ELSE LET a == acquireBuffer(heap, freeBuffers_) IN
            /\ heap' = a.h
            /\ freeBuffers_' = a.free
            /\ currentBuffer_' = a.buf
            /\ held' = held \cup {a.buf}
            /\ pc' = "stream"
            /\ UNCHANGED abortCause
  /\ UNCHANGED <<ret, argc, i, data, offset, entry, freed, now,
                 returnedFalse, warned>>

\* pushData as it would be if it flushed the current buffer on entry
PushCall_flushFirst ==
  /\ pc = "stream"
  /\ \E d \in SeqsUpTo(Byte, MaxPushLen) :
       /\ Len(pushed) + Len(d) <= MaxStreamLen
       /\ data' = d
       /\ pushed' = pushed \o d
  /\ offset' = 0
  /\ entry' = [used |-> heap[currentBuffer_].used, nchunks |-> Len(chunks),
               heap |-> heap, free |-> freeBuffers_, cur |-> currentBuffer_]
  /\ called' = TRUE
  /\ pc' = "flush"
  /\ ret' = "acquire"
  /\ UNCHANGED <<argc, i, heap, freeBuffers_, currentBuffer_,
                 chunks, freed, held, now, outFiles, returnedFalse, warned,
                 abortCause>>

\* the extractor calls chunker.pushData(buffer, n): entry, offset = 0
PushCall ==
  /\ pc = "stream"
  /\ \E d \in SeqsUpTo(Byte, MaxPushLen) :
       /\ Len(pushed) + Len(d) <= MaxStreamLen
       /\ data' = d
       /\ pushed' = pushed \o d
  /\ offset' = 0
  /\ entry' = [used |-> heap[currentBuffer_].used, nchunks |-> Len(chunks),
               heap |-> heap, free |-> freeBuffers_, cur |-> currentBuffer_]
  /\ called' = TRUE
  /\ pc' = "push"
  /\ UNCHANGED <<ret, argc, i, heap, freeBuffers_, currentBuffer_,
                 chunks, freed, held, now, outFiles, returnedFalse, warned,
                 abortCause>>

\* one iteration of `while (offset < len)` up to the test of line 153
PushIter ==
  /\ pc = "push"
  /\ offset < Len(data)
  /\ LET cur == heap[currentBuffer_]
         space == spaceLeft(cur) IN
     IF space = 0
       THEN \* flushCurrentBuffer(); acquireBuffer(); continue;
            /\ pc' = "flush"
            /\ ret' = "acquire"
            /\ UNCHANGED <<heap, offset>>
       ELSE LET n == toWrite(space, Len(data) - offset)
                copied == memcpy(cur, data, offset, n)
                filled == [copied EXCEPT !.used = cur.used + n] IN
            /\ heap' = [heap EXCEPT ![currentBuffer_] = filled]
            /\ offset' = offset + n
            /\ IF reachedLimit(filled)
                 THEN pc' = "flush" /\ ret' = "acquire"
                 ELSE pc' = "push" /\ UNCHANGED ret
  /\ UNCHANGED <<argc, i, freeBuffers_, currentBuffer_, data, entry, called,
                 pushed, chunks, freed, held, now, outFiles, returnedFalse,
                 warned, abortCause>>

\* currentBuffer_ = pool_.acquireBuffer(); after a flush inside pushData.
\* Assigning to a unique_ptr deletes the object it still owns, if any.
PushAcquire ==
  /\ pc = "acquire"
  /\ IF freeBuffers_ = <<>>
       THEN /\ Abort(PoolExhausted)
            /\ UNCHANGED <<heap, freeBuffers_, currentBuffer_, freed, held>>
       ELSE LET a == acquireBuffer(heap, freeBuffers_)
                old == {currentBuffer_} \ {NULL, a.buf} IN
            /\ heap' = [x \in DOMAIN a.h \ old |-> a.h[x]]
            /\ freed' = freed \cup old
            /\ freeBuffers_' = a.free
            /\ currentBuffer_' = a.buf
            /\ held' = held \cup {a.buf}
            /\ pc' = "push"
            /\ UNCHANGED abortCause
  /\ UNCHANGED <<ret, argc, i, data, offset, entry, called, pushed, chunks,
                 now, outFiles, returnedFalse, warned>>

\* the while condition fails: pushData returns to the extractor and its
\* parameters and locals are gone
PushReturn ==
  /\ pc = "push"
  /\ offset >= Len(data)
  /\ pc' = "stream"
  /\ data' = <<>>
  /\ offset' = 0
  /\ entry' = <<>>
  /\ UNCHANGED <<ret, argc, i, heap, freeBuffers_, currentBuffer_, called,
                 pushed, chunks, freed, held, now, outFiles, returnedFalse,
                 warned, abortCause>>

\* flushCurrentBuffer, whole.  compute_sha512 may throw, and nothing
\* catches it; otherwise the clock is read (it never runs backwards), the
\* chunk is named, written and released
flushCurrentBuffer ==
  /\ pc = "flush"
  /\ IF nothingToFlush(currentBuffer_, heap)
       THEN /\ pc' = ret
            /\ UNCHANGED <<heap, freeBuffers_, currentBuffer_, chunks, held,
                           now, outFiles, abortCause>>
       ELSE \E hashOk \in BOOLEAN, persist \in PersistOutcomes,
               t \in now..MaxTime :
            IF ~hashOk
              THEN /\ Abort(HashFailure)
                   /\ UNCHANGED <<heap, freeBuffers_, currentBuffer_, chunks,
                                  held, now, outFiles>>
              ELSE LET f == finalize(heap, freeBuffers_, currentBuffer_,
                                     persist, t) IN
                   /\ chunks' = Append(chunks, f.chunk)
                   /\ outFiles' = writeFile(outFiles, f.chunk.name,
                        writtenBytes(heap[currentBuffer_]), persist)
                   /\ now' = t
                   /\ heap' = f.h
                   /\ freeBuffers_' = f.free
                   /\ held' = held \ (Range(f.free) \ Range(freeBuffers_))
                   /\ currentBuffer_' = f.cb
                   /\ pc' = ret
                   /\ UNCHANGED abortCause
  /\ UNCHANGED <<ret, argc, i, data, offset, entry, called, pushed, freed,
                 returnedFalse, warned>>

\* the extractor (stream_file, stream_command_output, stream_parquet)
\* returns; it returns false only before its first pushData call.  main
\* logs the warning when it returned false; the loop body ends and
\* ~Chunker() starts with flushCurrentBuffer()
StreamReturn ==
  /\ pc = "stream"
  /\ \E success \in BOOLEAN :
       /\ ~success => ~called
       /\ returnedFalse' = IF success THEN returnedFalse
                           ELSE returnedFalse \cup {i}
       /\ warned' = IF success THEN warned ELSE warned \cup {i}
  /\ pc' = "flush"
  /\ ret' = "dtor"
  /\ UNCHANGED <<argc, i, heap, freeBuffers_, currentBuffer_, data,
                 offset, entry, called, pushed, chunks, freed, held, now,
                 outFiles, abortCause>>

\* end of ~Chunker(): the members are destroyed; a unique_ptr that still
\* owns a ChunkBuffer deletes it.  The histories of the Chunker end with
\* it.  Then ++i.
ChunkerDtor ==
  /\ pc = "dtor"
  /\ IF currentBuffer_ = NULL
       THEN UNCHANGED <<heap, freed>>
       ELSE /\ heap' = [a \in DOMAIN heap \ {currentBuffer_} |-> heap[a]]
            /\ freed' = freed \cup {currentBuffer_}
  /\ currentBuffer_' = NULL
  /\ called' = FALSE
  /\ pushed' = <<>>
  /\ chunks' = <<>>
  /\ outFiles' = <<>>
  /\ i' = i + 1
  /\ pc' = "main"
  /\ UNCHANGED <<ret, argc, freeBuffers_, data, offset, entry, held, now,
                 returnedFalse, warned, abortCause>>

\* the for loop ends: "All done", return 0
MainDone ==
  /\ pc = "main"
  /\ i >= argc
  /\ pc' = "done"
  /\ UNCHANGED <<ret, argc, i, heap, freeBuffers_, currentBuffer_, data,
                 offset, entry, called, pushed, chunks, freed, held, now,
                 outFiles, returnedFalse, warned, abortCause>>

Next ==
  \/ ChunkerCtor
  \/ PushCall
  \/ PushIter
  \/ PushAcquire
  \/ PushReturn
  \/ flushCurrentBuffer
  \/ StreamReturn
  \/ ChunkerDtor
  \/ MainDone

Spec == Init /\ [][Next]_vars

\* a run with one input on the command line (argc = 2)
OneInput == Init /\ argc = 2

\* the program is sequential and keeps executing: a step that can be taken
\* is taken
LiveSpec == OneInput /\ [][Next]_vars /\ WF_vars(Next)

\* --- the BufferPool alone, under any client ---------------------------------
\* The pool of main, used through its public interface by a client that
\* may hold several buffers at once; the Chunker and main do not move.
PoolFrame ==
  UNCHANGED <<pc, ret, argc, i, currentBuffer_, data, offset, entry, called,
              pushed,
              chunks, freed, now, outFiles, returnedFalse, warned>>

\* pool.acquireBuffer(): throws on an empty free list (the client catches
\* it; abortCause keeps what the last call threw), else hands out the back
PoolAcquire ==
  /\ IF freeBuffers_ = <<>>
       THEN /\ abortCause' = PoolExhausted
            /\ UNCHANGED <<heap, freeBuffers_, held>>
       ELSE LET a == acquireBuffer(heap, freeBuffers_) IN
            /\ heap' = a.h
            /\ freeBuffers_' = a.free
            /\ held' = held \cup {a.buf}
            /\ abortCause' = "none"
  /\ PoolFrame

\* pool.releaseBuffer(std::move(buf)) of a buffer the client holds
PoolRelease ==
  /\ \E b \in held :
       LET r == releaseBuffer(heap, freeBuffers_, b) IN
       /\ heap' = r.h
       /\ freeBuffers_' = r.free
       /\ held' = held \ {b}
  /\ abortCause' = "none"
  /\ PoolFrame

\* the client appends n bytes to a buffer it holds, as pushData does:
\* memcpy at data + used, used += n, within the capacity
ClientWrite ==
  /\ \E b \in held :
       \E n \in 1..(heap[b].capacity - heap[b].used) :
         LET src == [k \in 1..n |-> 1]
             copied == memcpy(heap[b], src, 0, n) IN
         heap' = [heap EXCEPT ![b] = [copied EXCEPT !.used = heap[b].used + n]]
  /\ UNCHANGED <<freeBuffers_, held, abortCause>>
  /\ PoolFrame

PoolNext ==
  \/ PoolAcquire
  \/ PoolRelease
  \/ ClientWrite

PoolSpec == Init /\ [][PoolNext]_vars

\* --- observations ------------------------------------------------------------
\* contents of the chunks the current Chunker finalized, in flush order
ChunkContents == [k \in 1..Len(chunks) |-> chunks[k].bytes]

CeilDiv(a, b) == (a + b - 1) \div b

\* the Chunker's destructor has run its flush: the stream is complete
StreamEnded == pc = "dtor"

\* C1: at the end of a stream, the finalized chunks concatenated in flush
\* order are exactly the bytes pushed, however they were cut into pushData
\* calls: nothing lost, duplicated or reordered
C1_Concatenation ==
  StreamEnded => Flatten(ChunkContents) = pushed

\* a stream of two full chunks and a partial one has ended
C1_Witness ==
  /\ StreamEnded
  /\ Len(pushed) = 2 * CHUNK_LIMIT + 1
  /\ Len(chunks) = 3

\* C2: no finalized chunk is longer than CHUNK_LIMIT; every chunk but the
\* last of a stream has exactly CHUNK_LIMIT bytes and the last has between
\* 1 and CHUNK_LIMIT
C2_ChunkLengths ==
  \A k \in 1..Len(chunks) :
    /\ Len(chunks[k].bytes) <= CHUNK_LIMIT
    /\ k < Len(chunks) => Len(chunks[k].bytes) = CHUNK_LIMIT
    /\ k = Len(chunks) => Len(chunks[k].bytes) \in 1..CHUNK_LIMIT

\* a stream ended with full chunks followed by a shorter last chunk
C2_Witness ==
  /\ StreamEnded
  /\ Len(chunks) >= 2
  /\ Len(chunks[Len(chunks)].bytes) < CHUNK_LIMIT
  /\ Len(chunks[1].bytes) = CHUNK_LIMIT

\* C3: the k-th chunk finalized is the bytes of the cumulative input from
\* (k-1)*CHUNK_LIMIT+1 to min(k*CHUNK_LIMIT, |S|), and a complete stream of
\* |S| bytes has ceil(|S| / CHUNK_LIMIT) chunks: boundaries depend on the
\* bytes pushed so far only, not on how pushData calls cut them
C3_Boundaries ==
  /\ \A k \in 1..Len(chunks) :
       chunks[k].bytes = SubSeq(pushed, (k - 1) * CHUNK_LIMIT + 1,
                                Min(k * CHUNK_LIMIT, Len(pushed)))
  /\ StreamEnded => Len(chunks) = CeilDiv(Len(pushed), CHUNK_LIMIT)

\* a stream ended with several chunks of different content, the last one
\* partial
C3_Witness ==
  /\ StreamEnded
  /\ Len(chunks) >= 2
  /\ Len(pushed) % CHUNK_LIMIT # 0
  /\ \E k \in 1..Len(chunks) : chunks[k].bytes # chunks[1].bytes

\* buffers checked out of the pool: the Chunker's current slot
CheckedOut == {currentBuffer_} \ {NULL}

\* C4: the free buffers together with the checked-out ones are always the
\* NUM_BUFFERS buffers the pool was built with, and none is deleted
C4_PoolConserved ==
  /\ Range(freeBuffers_) \cup CheckedOut = Addrs
  /\ DOMAIN heap = Addrs
  /\ freed = {}

\* C5: with streams processed one after another, every acquire (in the
\* Chunker constructor and after each full chunk) finds a free buffer
C5_NoExhaustion ==
  (pc = "acquire" \/ (pc = "main" /\ i < argc)) => freeBuffers_ # <<>>

\* a step of flushCurrentBuffer that finalizes a chunk
Finalizes == Len(chunks') = Len(chunks) + 1

\* C6: a finalization whose write fails releases the buffer exactly as a
\* successful one does and the run goes on: the buffer is appended to the
\* free list, the current slot is left empty and control returns to the
\* caller of flushCurrentBuffer, whatever the outcome of the write
C6_ReleaseOnWriteFailure ==
  [][Finalizes =>
       /\ freeBuffers_' = Append(freeBuffers_, currentBuffer_)
       /\ currentBuffer_' = NULL
       /\ heap'[currentBuffer_].used = 0
       /\ pc' = ret
       /\ abortCause' = "none"]_vars

\* the first chunk of a stream could not be written, the pool has all its
\* buffers back and a later chunk of the same stream was finalized
C6_Witness ==
  /\ Len(chunks) >= 2
  /\ chunks[1].persist = "open_fail"
  /\ chunks[Len(chunks)].persist = "ok"
  /\ currentBuffer_ = NULL
  /\ Len(freeBuffers_) = NUM_BUFFERS

\* C7: an input whose extraction fails is reported, and bad inputs never
\* keep a later input from getting its Chunker: a run whose inputs so far
\* all failed extraction has not been stopped by pool exhaustion
C7_BadInputsDoNotStopRun ==
  /\ warned = returnedFalse
  /\ (i > 1 /\ returnedFalse = 1..(i - 1)) =>
       ~(pc = "aborted" /\ abortCause = PoolExhausted)

\* C8: no chunk of length zero is emitted; at the end of a stream the
\* current buffer was finalized iff it held bytes, so a stream of n bytes
\* ends with ceil(n / CHUNK_LIMIT) chunks and closing an empty stream or
\* one of an exact multiple of CHUNK_LIMIT adds none
C8_NoEmptyChunk ==
  /\ \A k \in 1..Len(chunks) : chunks[k].bytes # <<>>
  /\ StreamEnded =>
       /\ (currentBuffer_ = NULL) <=> (Len(pushed) % CHUNK_LIMIT # 0)
       /\ Len(chunks) * CHUNK_LIMIT < Len(pushed) + CHUNK_LIMIT
       /\ Len(pushed) <= Len(chunks) * CHUNK_LIMIT

\* a stream of an exact multiple of CHUNK_LIMIT ended: the destructor's
\* flush found used = 0 and emitted nothing
C8_Witness ==
  /\ StreamEnded
  /\ pushed # <<>>
  /\ Len(pushed) % CHUNK_LIMIT = 0
  /\ Len(chunks) = Len(pushed) \div CHUNK_LIMIT
  /\ currentBuffer_ # NULL

\* bytes of the current stream copied into a buffer so far
Accepted == Len(pushed) - (Len(data) - offset)

\* C9: every buffer has 0 <= used <= CHUNK_LIMIT <= capacity; a current
\* buffer that has reached CHUNK_LIMIT is at the call of
\* flushCurrentBuffer, so no byte is accepted before it is finalized; the
\* bytes accepted and not yet finalized are at most CHUNK_LIMIT
C9_UsedBounded ==
  /\ \A a \in DOMAIN heap :
       /\ 0 <= heap[a].used
       /\ heap[a].used <= CHUNK_LIMIT
       /\ CHUNK_LIMIT <= heap[a].capacity
  /\ (currentBuffer_ # NULL /\ heap[currentBuffer_].used = CHUNK_LIMIT) =>
       pc \in {"flush", "aborted"}
  /\ Accepted - Len(Flatten(ChunkContents)) <= CHUNK_LIMIT
  /\ Accepted - Len(Flatten(ChunkContents)) >= 0

\* a push has filled the current buffer to CHUNK_LIMIT with input left
C9_Witness ==
  /\ pc = "flush"
  /\ ret = "acquire"
  /\ heap[currentBuffer_].used = CHUNK_LIMIT
  /\ offset < Len(data)
  /\ chunks # <<>>

\* C10: every live buffer has exactly one holder: the free list holds no
\* buffer twice, the Chunker's current buffer is not in the free list,
\* every live buffer is in one of the two and neither refers to a deleted
\* buffer
C10_SingleHolder ==
  /\ \A j, k \in 1..Len(freeBuffers_) :
       j # k => freeBuffers_[j] # freeBuffers_[k]
  /\ currentBuffer_ \notin Range(freeBuffers_)
  /\ Range(freeBuffers_) \cup CheckedOut = DOMAIN heap

\* a buffer went through a release and one is checked out while another
\* is free
C10_Witness ==
  /\ chunks # <<>>
  /\ currentBuffer_ # NULL
  /\ freeBuffers_ # <<>>
  /\ pc = "push"

\* C11: at the pool interface, whatever the sequence of acquireBuffer and
\* releaseBuffer calls (a client releases only buffers it holds), the free
\* buffers plus the checked-out ones are NUM_BUFFERS, each counted once,
\* and they are the buffers of the construction
C11_PoolCount ==
  /\ Len(freeBuffers_) + Cardinality(held) = NUM_BUFFERS
  /\ Range(freeBuffers_) \cap held = {}
  /\ Range(freeBuffers_) \cup held = Addrs
  /\ DOMAIN heap = Addrs

\* every buffer is checked out and one of them has been through a
\* release and a second acquire (it holds old bytes and used = 0)
C11_Witness ==
  /\ held = Addrs
  /\ freeBuffers_ = <<>>
  /\ \E b \in held : heap[b].used = 0 /\ heap[b].data[1] # Uninit

\* a call of acquireBuffer is about to run: the Chunker constructor of the
\* next input, or the acquire after a flush inside pushData
AtAcquire == pc = "acquire" \/ (pc = "main" /\ i < argc)

\* C12: acquireBuffer on an empty free list throws the pool-exhausted
\* error every time: the step leaves the pool and its buffers as they
\* were (nothing allocated, nothing handed out), nothing handles the
\* exception, and the run has ended: no step follows
C12_ExhaustionIsFatal ==
  [][/\ (AtAcquire /\ freeBuffers_ = <<>>) =>
          /\ pc' = "aborted"
          /\ abortCause' = PoolExhausted
          /\ UNCHANGED <<heap, freeBuffers_, held, currentBuffer_, i>>
     /\ ~(pc = "aborted" /\ abortCause = PoolExhausted)]_vars

\* the run was ended by an acquire on an empty free list
C12_Witness ==
  /\ pc = "aborted"
  /\ abortCause = PoolExhausted
  /\ freeBuffers_ = <<>>
  /\ currentBuffer_ = NULL

\* control is inside a pushData call (lines 136-158 and the calls it makes)
InCall == pc = "push" \/ pc = "acquire" \/ (pc = "flush" /\ ret = "acquire")

\* the Chunker and pool state a pushData call can change
ChunkerState == <<heap, freeBuffers_, currentBuffer_, chunks, held, freed,
                  outFiles>>

\* C13: a pushData call of length zero is a no-op: entering it changes
\* nothing, its only step is the return, and at the return the buffers'
\* contents and fill levels, the free list, the current buffer and the
\* chunks finalized are all what they were on entry.
C13_ZeroLengthNoOp ==
  [][/\ (~InCall /\ InCall' /\ data' = <<>>) => UNCHANGED ChunkerState
     /\ (InCall /\ data = <<>>) =>
          /\ pc = "push" /\ pc' = "stream"
          /\ UNCHANGED ChunkerState
          /\ heap = entry.heap
          /\ freeBuffers_ = entry.free
          /\ currentBuffer_ = entry.cur
          /\ Len(chunks) = entry.nchunks]_vars

\* a zero-length call is in progress on a partly filled buffer
C13_Witness ==
  /\ pc = "push" /\ data = <<>>
  /\ currentBuffer_ # NULL
  /\ heap[currentBuffer_].used > 0

\* C14: a chunk whose buffer reaches the threshold is finalized inside the
\* pushData call that filled it: whenever control is back in the extractor
\* a current buffer exists, its fill level is below the threshold, and
\* every full threshold of the bytes pushed so far is already a chunk.
C14_FinalizedInSameCall ==
  pc = "stream" =>
    /\ currentBuffer_ # NULL
    /\ currentBuffer_ \in held
    /\ heap[currentBuffer_].used < CHUNK_LIMIT
    /\ Len(chunks) = Len(pushed) \div CHUNK_LIMIT
    /\ heap[currentBuffer_].used = Len(pushed) % CHUNK_LIMIT

\* a push has returned right after filling a buffer to the threshold
C14_Witness ==
  /\ pc = "stream" /\ called
  /\ Len(pushed) = CHUNK_LIMIT
  /\ Len(chunks) = 1
  /\ heap[currentBuffer_].used = 0

\* the step finalizes a chunk
FinalizeStep == Len(chunks') = Len(chunks) + 1

\* C15: when a chunk is finalized and its write succeeds, the object of
\* that name holds exactly the first `used` bytes of the buffer, and the
\* digest in the name is the digest of the bytes the object holds.
C15_NameDigestMatchesBytes ==
  [][(FinalizeStep /\ chunks'[Len(chunks')].persist = "ok") =>
       LET c == chunks'[Len(chunks')]
           b == heap[currentBuffer_]
       IN /\ c.name \in DOMAIN outFiles'
          /\ outFiles'[c.name].whole
          /\ outFiles'[c.name].bytes = SubSeq(b.data, 1, b.used)
          /\ c.name.digest = compute_sha512(outFiles'[c.name].bytes)]_vars

\* a partly filled buffer (capacity not reached) was written out whole
C15_Witness ==
  /\ chunks # <<>>
  /\ LET c == chunks[Len(chunks)]
     IN /\ c.persist = "ok"
        /\ Len(c.bytes) < CHUNK_LIMIT
        /\ c.name \in DOMAIN outFiles
        /\ outFiles[c.name].bytes = c.bytes
        /\ outFiles[c.name].whole

\* the finalized chunks of the stream whose output object was opened
Persisted == {k \in 1..Len(chunks) : chunks[k].persist # "open_fail"}

\* C16: each finalized chunk is persisted as its own output object: the
\* number of output objects equals the number of chunks persisted, every
\* chunk has a name of its own, and the object of a chunk written whole
\* still holds that chunk's bytes.
C16_OneObjectPerChunk ==
  /\ Cardinality(DOMAIN outFiles) = Cardinality(Persisted)
  /\ \A j, k \in Persisted : j # k => chunks[j].name # chunks[k].name

\* C17: every failed persist is reported as a failure: a chunk whose
\* object could not be opened, or whose write failed after opening, never
\* gets the "Flushed chunk" success line.
C17_FailedPersistReported ==
  \A k \in 1..Len(chunks) :
    chunks[k].persist # "ok" => chunks[k].log # "Flushed chunk"

\* C18: a digest failure aborts the run in the step where it happens:
\* that step writes no object, finalizes no chunk and leaves buffers and
\* pool as they are, and no step of any stream follows it.
C18_HashFailureAborts ==
  [][/\ (abortCause' = HashFailure /\ abortCause # HashFailure) =>
          /\ pc = "flush" /\ pc' = "aborted"
          /\ UNCHANGED <<chunks, outFiles, heap, freeBuffers_,
                         currentBuffer_, held, i>>
     /\ abortCause # HashFailure]_vars

\* the run was aborted by a digest failure on the second chunk of a stream
C18_Witness ==
  /\ pc = "aborted" /\ abortCause = HashFailure
  /\ Len(chunks) = 1
  /\ currentBuffer_ # NULL
  /\ heap[currentBuffer_].used > 0
  /\ Len(pushed) > CHUNK_LIMIT

\* C19: at most one buffer is checked out of the pool at any instant and
\* the free count never drops below NUM_BUFFERS - 1.
C19_FreeCountAtLeastNMinus1 ==
  /\ Cardinality(CheckedOut) <= 1
  /\ Len(freeBuffers_) >= NUM_BUFFERS - 1

\* a buffer in the free list is empty and has its full allocation
FreeBufferClean(b) ==
  /\ heap[b].used = 0
  /\ heap[b].capacity = CHUNK_LIMIT
  /\ Len(heap[b].data) = heap[b].capacity

\* C20: every buffer in the free list has used = 0 and its full capacity,
\* and a buffer handed out by acquireBuffer has used = 0 with capacity and
\* allocation unchanged (the same storage, bytes not wiped).
C20_FreeBuffersCleared ==
  /\ [](\A k \in 1..Len(freeBuffers_) : FreeBufferClean(freeBuffers_[k]))
  /\ [][\A b \in held' \ held :
          /\ b \in Range(freeBuffers_) \ Range(freeBuffers_')
          /\ heap'[b].used = 0
          /\ heap'[b].capacity = heap[b].capacity
          /\ heap'[b].data = heap[b].data]_vars

\* a released buffer was handed out again: empty, with the bytes of the
\* chunk it held before still in its storage
C20_Witness ==
  /\ pc = "push"
  /\ chunks # <<>>
  /\ currentBuffer_ \in held
  /\ heap[currentBuffer_].used = 0
  /\ heap[currentBuffer_].data = chunks[Len(chunks)].bytes

\* C21: a pushData call terminates: every loop iteration finds room in the
\* current buffer (the spaceLeft == 0 branch is not taken) and consumes at
\* least one input byte; the call returns with all input consumed, having
\* finalized floor((u + len) / CHUNK_LIMIT) chunks, and with
\* used = (u + len) mod CHUNK_LIMIT, u being the fill level on entry.
C21_PushDataTerminates ==
  /\ [][/\ (pc = "push" /\ offset < Len(data)) =>
             /\ spaceLeft(heap[currentBuffer_]) > 0
             /\ offset' > offset
             /\ offset' <= Len(data)
        /\ (InCall /\ pc' = "stream") =>
             /\ offset = Len(data)
             /\ entry.used < CHUNK_LIMIT
             /\ Len(chunks') =
                  entry.nchunks + (entry.used + Len(data)) \div CHUNK_LIMIT
             /\ heap'[currentBuffer_'].used =
                  (entry.used + Len(data)) % CHUNK_LIMIT]_vars
  /\ InCall ~> (pc = "stream" \/ pc = "aborted")

\* a call that started on a partly filled buffer is about to return after
\* finalizing a chunk and leaving a remainder in the new buffer
C21_Witness ==
  /\ pc = "push" /\ offset = Len(data)
  /\ entry.used > 0
  /\ Len(chunks) > entry.nchunks
  /\ heap[currentBuffer_].used > 0

====
